---- MODULE Spec2Model ----
(***************************************************************************)
(* The Date schema type of lib/schema/date.js: casting of arbitrary        *)
(* JavaScript values to Date, the replaceable min / max validators, the    *)
(* TTL index declaration and query casting.                                *)
(***************************************************************************)
EXTENDS Integers, Sequences, FiniteSets, TLC

VARIABLES
    path,          \* this.path
    validators,    \* this.validators
    minValidator,  \* this.minValidator: the handle of a function, 0 = undefined
    maxValidator,  \* this.maxValidator
    _index,        \* this._index
    now,           \* what Date.now() returns, in ms
    last           \* the last call made on the object and its outcome

vars == <<path, validators, minValidator, maxValidator, _index, now, last>>

(***************************************************************************)
(* JavaScript numbers: a finite integer, NaN, +Infinity or -Infinity.      *)
(***************************************************************************)
Num(i) == [c |-> "fin", n |-> i]
NaN == [c |-> "nan", n |-> 0]
PosInf == [c |-> "pinf", n |-> 0]
NegInf == [c |-> "ninf", n |-> 0]

\* isNaN(x)
IsNaN(x) == x.c = "nan"

\* x >= k and x < k for a JavaScript number x and an integer literal k
NumGE(x, k) == x.c = "pinf" \/ (x.c = "fin" /\ x.n >= k)
NumLT(x, k) == x.c = "ninf" \/ (x.c = "fin" /\ x.n < k)

\* a >= b and a <= b on two time values (false when either is NaN)
TimeGE(a, b) == a.c = "fin" /\ b.c = "fin" /\ a.n >= b.n
TimeLE(a, b) == a.c = "fin" /\ b.c = "fin" /\ a.n <= b.n

\* TimeClip of the Date constructor: every finite number of the model lies
\* within +-8.64e15 ms, a non-finite one gives an invalid date.
TimeClip(x) == IF x.c = "fin" THEN x ELSE NaN

(***************************************************************************)
(* JavaScript values.  k is the kind, n the number it carries, s the       *)
(* string it carries, ref the identity of an object (0 = allocated by the  *)
(* call under study), vk what valueOf() / toString() of an object gives.   *)
(***************************************************************************)
Val(k, n, s, ref, vk) == [n |-> n, k |-> k, s |-> s, ref |-> ref, vk |-> vk]

Null == Val("null", NaN, "", 0, "")
Undefined == Val("undefined", NaN, "", 0, "")
Str(s) == Val("string", NaN, s, 0, "")
Bool(b) == Val("boolean", NaN, IF b THEN "true" ELSE "false", 0, "")
Number(n) == Val("number", n, "", 0, "")
BoxedNumber(n, ref) == Val("Number", n, "", ref, "")
DateObj(t, ref) == Val("Date", t, "", ref, "")
\* an object whose valueOf() returns a number (a moment.js wrapper)
WrapNum(n, ref) == Val("object", n, "", ref, "number")
\* an object whose valueOf() returns a string
WrapStr(s, ref) == Val("object", NaN, s, ref, "string")
\* a plain object: valueOf() returns the object, toString() a string
Plain(ref) == Val("object", NaN, "[object Object]", ref, "self")
\* an object whose valueOf is not a function, with an inherited toString()
NoValueOf(ref) == Val("bare", NaN, "[object Object]", ref, "string")
\* an object without prototype: neither valueOf nor toString
NullProto(ref) == Val("bare", NaN, "", ref, "none")
\* the function Date.now
DateNow == Val("function", NaN, "function now() { [native code] }", 1, "self")
\* the field-type object
This == Val("this", NaN, "", 1, "")
\* the result of an inherited conditional handler on value v
BaseHandled(op, v) == Val("handled", v.n, op, v.ref, v.k)

\* results of a call: a returned value or a thrown error
NoError == [path |-> "", name |-> "", kind |-> "", value |-> Undefined, message |-> <<>>]
Return(v) == [st |-> "return", val |-> v, err |-> NoError]
Throw(e) == [st |-> "throw", val |-> Undefined, err |-> e]
TypeError(m) == [path |-> "", name |-> "TypeError", kind |-> "", value |-> Undefined, message |-> <<m>>]

\* !!value
Truthy(v) ==
    CASE v.k \in {"null", "undefined"} -> FALSE
      [] v.k = "string" -> v.s # ""
      [] v.k = "boolean" -> v.s = "true"
      [] v.k = "number" -> ~(v.n.c = "nan" \/ (v.n.c = "fin" /\ v.n.n = 0))
      [] OTHER -> TRUE

\* Number(s) for the strings of the model
StringToNumber(s) ==
    CASE s = "" -> Num(0)
      [] s = "1970" -> Num(1970)
      [] s = "275761" -> Num(275761)
      [] s = "-271821" -> Num(-271821)
      [] s = "Infinity" -> PosInf
      [] OTHER -> NaN

\* Date.parse(s) for the strings of the model, in ms since the epoch
DateParse(s) ==
    CASE s = "1970-01-02" -> Num(86400000)
      [] s = "1970-01-01T00:00:01Z" -> Num(1000)
      [] s = "1970" -> Num(0)
      [] OTHER -> NaN

\* ToPrimitive(v) as new Date(v) applies it: a value, or a TypeError
ToPrimitive(v) ==
    CASE v.k = "Number" -> Return(Number(v.n))
      [] v.k = "object" /\ v.vk = "number" -> Return(Number(v.n))
      [] v.k \in {"object", "function", "bare"} /\ v.vk \in {"string", "self"} -> Return(Str(v.s))
      [] v.k = "bare" /\ v.vk = "none" -> Throw(TypeError("Cannot convert object to primitive value"))
      [] OTHER -> Return(v)

\* new Date(v): a fresh Date object, or the TypeError of ToPrimitive
NewDate(v) ==
    IF v.k = "Date" THEN Return(DateObj(v.n, 0))
    ELSE LET p == ToPrimitive(v) IN
         IF p.st = "throw" THEN p
         ELSE CASE p.val.k = "string" -> Return(DateObj(DateParse(p.val.s), 0))
                [] p.val.k = "number" -> Return(DateObj(TimeClip(p.val.n), 0))
                [] p.val.k = "null" -> Return(DateObj(Num(0), 0))
                [] p.val.k = "boolean" -> Return(DateObj(Num(IF p.val.s = "true" THEN 1 ELSE 0), 0))
                [] OTHER -> Return(DateObj(NaN, 0))

\* typeof v.valueOf === 'function'
HasValueOf(v) == v.k \notin {"null", "undefined", "bare"}

\* v.valueOf()
ValueOf(v) ==
    CASE v.k = "Number" -> Number(v.n)
      [] v.k = "Date" -> Number(v.n)
      [] v.k = "object" /\ v.vk = "number" -> Number(v.n)
      [] v.k = "object" /\ v.vk = "string" -> Str(v.s)
      [] OTHER -> v

YearHi == 275761
YearLo == -271820

\* new CastError('date', value, this.path)
CastError(value) == [path |-> path, name |-> "CastError", kind |-> "date", value |-> value, message |-> <<>>]

\* the Date the branches of cast build (lines 235-247)
castConstruct(value) ==
    IF value.k \in {"Number", "number"} THEN NewDate(value)
    ELSE IF value.k = "string" /\ ~IsNaN(StringToNumber(value.s))
            /\ (NumGE(StringToNumber(value.s), YearHi) \/ NumLT(StringToNumber(value.s), YearLo))
         THEN NewDate(Number(StringToNumber(value.s)))
    ELSE IF HasValueOf(value) THEN NewDate(ValueOf(value))
    ELSE NewDate(value)

\* SchemaDate.prototype.cast
cast(value) ==
    IF value.k \in {"null", "undefined"} \/ value = Str("") THEN Return(Null)
    ELSE IF value.k = "Date"
         THEN IF IsNaN(value.n) THEN Throw(CastError(value)) ELSE Return(value)
    ELSE IF value.k = "boolean" THEN Throw(CastError(value))
    ELSE LET date == castConstruct(value) IN
         IF date.st = "throw" THEN date
         ELSE IF ~IsNaN(date.val.n) THEN date
         ELSE Throw(CastError(value))

(***************************************************************************)
(* The validator chain.  A validator function is known by its identity:    *)
(* `validator` is the handle of the function object.  `bound` is the       *)
(* entry's min / max property, the bound as it was passed, which the       *)
(* predicate closes over.                                                  *)
(***************************************************************************)
Entry(fn, type, bound, message) ==
    [message |-> message, type |-> type, bound |-> bound, validator |-> fn]

\* validator functions registered through the inherited validate()
OtherFns == {101, 102}

MaxOther == 1
MaxNow == 2

\* handles of the functions the chain and the two markers refer to
Live == {validators[i].validator : i \in DOMAIN validators} \cup {minValidator, maxValidator}

\* the handle of a newly created function object: one nothing refers to
NewFn == CHOOSE f \in 1..(Cardinality(Live) + 1) : f \notin Live

\* a min / max that never removes the validator installed before
RemoveBound_keepAll(vs, marker) == vs

\* this.validators.filter(v => v.validator !== marker), when the marker is set
RemoveBound(vs, marker) ==
    IF marker # 0 THEN SelectSeq(vs, LAMBDA v : v.validator # marker) ELSE vs

\* unshift in place of push
Push_front(vs, entry) == <<entry>> \o vs

\* this.validators.push(entry)
Push(vs, entry) == Append(vs, entry)

\* message || MongooseError.messages.Date.min, with {MIN} / {MAX} replaced by
\* token: 'Date.now()' or the string form of the cast bound
BoundMessage(message, token) ==
    [token |-> token, template |-> IF message # "" THEN message ELSE "default"]

NoMessage == [token |-> Undefined, template |-> ""]

\* a setter without its return statement
returnThis_undefined == Return(Undefined)

\* return this
returnThis == Return(This)

\* a minimum that excludes the bound itself
minValidatorFn_strict(value, val) ==
    LET min == IF value = DateNow THEN Return(Number(Num(now))) ELSE cast(value) IN
    IF min.st = "throw" THEN min
    ELSE IF val = Null THEN Return(Bool(TRUE))
    ELSE IF val.k = "undefined"
         THEN Throw(TypeError("Cannot read property 'valueOf' of undefined"))
    ELSE Return(Bool(TimeGE(ValueOf(val).n, ValueOf(min.val).n)
                     /\ ValueOf(val).n # ValueOf(min.val).n))

\* a predicate that casts Date.now like a literal bound
minValidatorFn_castNow(value, val) ==
    LET min == cast(value) IN
    IF min.st = "throw" THEN min
    ELSE IF val = Null THEN Return(Bool(TRUE))
    ELSE IF val.k = "undefined"
         THEN Throw(TypeError("Cannot read property 'valueOf' of undefined"))
    ELSE Return(Bool(TimeGE(ValueOf(val).n, ValueOf(min.val).n)))

\* the predicate installed by min: value is the bound it closes over
minValidatorFn(value, val) ==
    LET min == IF value = DateNow THEN Return(Number(Num(now))) ELSE cast(value) IN
    IF min.st = "throw" THEN min
    ELSE IF val = Null THEN Return(Bool(TRUE))
    ELSE IF val.k = "undefined"
         THEN Throw(TypeError("Cannot read property 'valueOf' of undefined"))
    ELSE Return(Bool(TimeGE(ValueOf(val).n, ValueOf(min.val).n)))

\* a maximum without the test for null: null.valueOf() throws
maxValidatorFn_noNull(value, val) ==
    LET max == IF value = DateNow THEN Return(Number(Num(now))) ELSE cast(value) IN
    IF max.st = "throw" THEN max
    ELSE IF val.k \in {"null", "undefined"}
         THEN Throw(TypeError("Cannot read property 'valueOf' of null"))
    ELSE Return(Bool(TimeLE(ValueOf(val).n, ValueOf(max.val).n)))

\* the predicate installed by max
maxValidatorFn(value, val) ==
    LET max == IF value = DateNow THEN Return(Number(Num(now))) ELSE cast(value) IN
    IF max.st = "throw" THEN max
    ELSE IF val = Null THEN Return(Bool(TRUE))
    ELSE IF val.k = "undefined"
         THEN Throw(TypeError("Cannot read property 'valueOf' of undefined"))
    ELSE Return(Bool(TimeLE(ValueOf(val).n, ValueOf(max.val).n)))

(***************************************************************************)
(* The index specification: undefined, a non-object such as true, or a     *)
(* plain object, a mapping from option names to values.                    *)
(***************************************************************************)
NoProps == [k \in {} |-> Undefined]
IndexUndefined == [type |-> "undefined", props |-> NoProps]
IndexTrue == [type |-> "Boolean", props |-> NoProps]
IndexObject(props) == [type |-> "Object", props |-> props]

\* object[key] = v
SetProp(props, key, v) ==
    [k \in DOMAIN props \cup {key} |-> IF k = key THEN v ELSE props[k]]

\* the duration parser: seconds of a number or of a duration string
ParseDuration(when) ==
    CASE when.k = "number" -> when
      [] when = Str("24h") -> Number(Num(86400))
      [] when = Str("7d") -> Number(Num(604800))
      [] OTHER -> Number(NaN)

\* utils.expires(object): the expires entry becomes the parsed duration
utilsExpires(props) ==
    IF "expires" \in DOMAIN props
    THEN SetProp(props, "expires", ParseDuration(props["expires"]))
    ELSE props

(***************************************************************************)
(* Query casting.                                                          *)
(***************************************************************************)
\* the conditional handlers inherited from SchemaType
BaseConditionals == {"$exists", "$ne", "$in"}

\* this.$conditionalHandlers[$conditional]
conditionalHandlers(conditional) ==
    CASE conditional \in {"$gt", "$gte", "$lt", "$lte"} -> "handleSingle"
      [] conditional \in BaseConditionals -> "inherited"
      [] OTHER -> "undefined"

\* handleSingle
handleSingle(val) == cast(val)

\* the inherited this._castForQuery(val)
_castForQuery(val) == cast(val)

\* new Error('Can\'t use ' + $conditional + ' with Date.')
UsageError(conditional) ==
    [path |-> "", name |-> "Error", kind |-> "", value |-> Undefined,
     message |-> <<"Can't use ", conditional, " with Date.">>]

\* a castForQuery that takes the one-argument form when val is undefined
castForQuery_byValue(argc, conditional, val) ==
    IF val.k = "undefined" THEN _castForQuery(conditional)
    ELSE LET handler == conditionalHandlers(conditional.s) IN
         IF handler = "undefined" THEN Throw(UsageError(conditional.s))
         ELSE IF handler = "handleSingle" THEN handleSingle(val)
         ELSE Return(BaseHandled(conditional.s, val))

\* SchemaDate.prototype.castForQuery called with argc arguments: conditional
\* is the first one, val the second (undefined when not passed)
castForQuery(argc, conditional, val) ==
    IF argc # 2 THEN _castForQuery(conditional)
    ELSE LET handler == conditionalHandlers(conditional.s) IN
         IF handler = "undefined" THEN Throw(UsageError(conditional.s))
         ELSE IF handler = "handleSingle" THEN handleSingle(val)
         ELSE Return(BaseHandled(conditional.s, val))

(***************************************************************************)
(* The record of the last call: the operation, its arguments, its outcome. *)
(* For a validator call: fn, type and bound of the validator called, the   *)
(* time of the call, and the outcome of the call before it when that was   *)
(* an earlier call of the same validator on the same value.                *)
(***************************************************************************)
NoPrev == [some |-> FALSE, at |-> 0, out |-> Return(Undefined)]

Call(op, arg, out) ==
    [op |-> op, fn |-> 0, type |-> "", bound |-> Undefined, argc |-> 0, at |-> 0,
     out |-> out, arg |-> arg, first |-> Undefined, prev |-> NoPrev]

\* new SchemaDate(key, options)
Init ==
    /\ path = "d"
    /\ validators = <<>>
    /\ minValidator = 0
    /\ maxValidator = 0
    /\ _index = IndexUndefined
    /\ now = 0
    /\ last = Call("new", Undefined, returnThis)

\* an expires that always starts from an empty index specification
expires_reset(when) ==
    /\ _index' = IndexObject(utilsExpires(SetProp(NoProps, "expires", when)))
    /\ last' = Call("expires", when, returnThis)
    /\ UNCHANGED <<path, validators, minValidator, maxValidator, now>>

\* SchemaDate.prototype.expires
expires(when) ==
    /\ _index' = IndexObject(utilsExpires(SetProp(
                     IF _index.type = "undefined" \/ _index.type # "Object"
                     THEN NoProps ELSE _index.props,
                     "expires", when)))
    /\ last' = Call("expires", when, returnThis)
    /\ UNCHANGED <<path, validators, minValidator, maxValidator, now>>

\* SchemaDate.prototype.min
min(value, message) ==
    LET kept == RemoveBound(validators, minValidator) IN
    IF ~Truthy(value)
    THEN /\ validators' = kept
         /\ last' = Call("min", value, returnThis)
         /\ UNCHANGED <<path, minValidator, maxValidator, _index, now>>
    ELSE IF value # DateNow /\ cast(value).st = "throw"
    THEN /\ validators' = kept
         /\ last' = Call("min", value, cast(value))
         /\ UNCHANGED <<path, minValidator, maxValidator, _index, now>>
    ELSE LET msg == BoundMessage(message, IF value = DateNow THEN DateNow ELSE cast(value).val)
             fn == NewFn
         IN /\ validators' = Push(kept, Entry(fn, "min", value, msg))
            /\ minValidator' = fn
            /\ last' = Call("min", value, returnThis)
            /\ UNCHANGED <<path, maxValidator, _index, now>>

\* SchemaDate.prototype.max
max(value, message) ==
    LET kept == RemoveBound(validators, maxValidator) IN
    IF ~Truthy(value)
    THEN /\ validators' = kept
         /\ last' = Call("max", value, returnThis)
         /\ UNCHANGED <<path, minValidator, maxValidator, _index, now>>
    ELSE IF value # DateNow /\ cast(value).st = "throw"
    THEN /\ validators' = kept
         /\ last' = Call("max", value, cast(value))
         /\ UNCHANGED <<path, minValidator, maxValidator, _index, now>>
    ELSE LET msg == BoundMessage(message, IF value = DateNow THEN DateNow ELSE cast(value).val)
             fn == NewFn
         IN /\ validators' = Push(kept, Entry(fn, "max", value, msg))
            /\ maxValidator' = fn
            /\ last' = Call("max", value, returnThis)
            /\ UNCHANGED <<path, minValidator, _index, now>>

\* the inherited validate(fn): one more entry at the end of the chain
validate(fn) ==
    /\ Cardinality({i \in DOMAIN validators : validators[i].type = "user defined"}) < MaxOther
    /\ validators' = Append(validators, Entry(fn, "user defined", Undefined, NoMessage))
    /\ last' = Call("validate", Undefined, returnThis)
    /\ UNCHANGED <<path, minValidator, maxValidator, _index, now>>

\* the inherited index(options)
index(options) ==
    /\ _index' = options
    /\ last' = Call("index", Undefined, returnThis)
    /\ UNCHANGED <<path, validators, minValidator, maxValidator, now>>

\* document validation calls the i-th validator of the chain on val
runValidator(i, val) ==
    LET e == validators[i]
        out == IF e.type = "min" THEN minValidatorFn(e.bound, val)
               ELSE maxValidatorFn(e.bound, val)
    IN /\ e.type \in {"min", "max"}
       /\ last' = [Call("validator", val, out) EXCEPT
                     !.fn = e.validator, !.type = e.type, !.bound = e.bound, !.at = now,
                     !.prev = IF last.op = "validator" /\ last.fn = e.validator
                                 /\ last.arg = val /\ last.at < now
                              THEN [some |-> TRUE, at |-> last.at, out |-> last.out]
                              ELSE NoPrev]
       /\ UNCHANGED <<path, validators, minValidator, maxValidator, _index, now>>

\* real time passes
Tick ==
    /\ now < MaxNow
    /\ now' = now + 1
    /\ UNCHANGED <<path, validators, minValidator, maxValidator, _index, last>>

\* a call of cast
callCast(value) ==
    /\ last' = Call("cast", value, cast(value))
    /\ UNCHANGED <<path, validators, minValidator, maxValidator, _index, now>>

\* a call of castForQuery with argc arguments
callCastForQuery(argc, conditional, val) ==
    /\ last' = [Call("castForQuery", val, castForQuery(argc, conditional, val))
                  EXCEPT !.argc = argc, !.first = conditional]
    /\ UNCHANGED <<path, validators, minValidator, maxValidator, _index, now>>

\* the bounds passed to min and max
BoundArgs ==
    {Null, Str(""), DateObj(Num(1), 2), Str("1970-01-01T00:00:01Z"), DateNow,
     Str("not-a-date")}

Messages == {"", "custom"}

\* the candidate values document validation passes to a validator
Candidates ==
    {Null, Undefined, DateObj(Num(0), 3), DateObj(Num(1), 4), DateObj(Num(2), 5)}

Whens == {Number(Num(60)), Str("24h")}

IndexOptions == {IndexTrue, IndexObject(SetProp(NoProps, "unique", Bool(TRUE)))}

\* the values passed to cast
CastInputs ==
    {Null, Undefined, Str(""), DateObj(Num(5), 2), DateObj(NaN, 3),
     Bool(TRUE), Bool(FALSE),
     Number(Num(0)), Number(Num(1000)), Number(NaN), Number(PosInf),
     BoxedNumber(Num(1000), 4),
     Str("1970-01-02"), Str("1970"), Str("275761"), Str("-271821"), Str("Infinity"),
     Str("not-a-date"),
     WrapNum(Num(1000), 5), WrapNum(NaN, 6), WrapStr("1970-01-02", 7),
     Plain(8), NoValueOf(9), NullProto(10), DateNow}

Conditionals == {"$gt", "$gte", "$lt", "$lte", "$exists", "$ne", "$regex", "$near"}

MinCalls == \E value \in BoundArgs, message \in Messages : min(value, message)
MaxCalls == \E value \in BoundArgs, message \in Messages : max(value, message)
ExpiresCalls == \E when \in Whens : expires(when)
ValidateCalls == \E fn \in OtherFns : validate(fn)
IndexCalls == \E options \in IndexOptions : index(options)
ValidatorCalls == \E i \in DOMAIN validators, val \in Candidates : runValidator(i, val)
CastCalls == \E value \in CastInputs : callCast(value)
CastForQueryCalls ==
    \/ \E c \in Conditionals, val \in CastInputs : callCastForQuery(2, Str(c), val)
    \/ \E argc \in {1, 3}, value \in CastInputs : callCastForQuery(argc, value, Undefined)

Next ==
    \/ MinCalls \/ MaxCalls \/ ExpiresCalls \/ ValidateCalls \/ IndexCalls
    \/ ValidatorCalls \/ Tick \/ CastCalls \/ CastForQueryCalls

Spec == Init /\ [][Next]_vars

\* the validator chain alone
NextBounds == MinCalls \/ MaxCalls \/ ValidateCalls
SpecBounds == Init /\ [][NextBounds]_vars

\* the bound validators and document validation over time
NextValidate == MinCalls \/ MaxCalls \/ ValidatorCalls \/ Tick
SpecValidate == Init /\ [][NextValidate]_vars

\* the index specification
NextIndex == ExpiresCalls \/ IndexCalls \/ MinCalls \/ ValidateCalls
SpecIndex == Init /\ [][NextIndex]_vars

\* casting
NextCast == CastCalls \/ CastForQueryCalls
SpecCast == Init /\ [][NextCast]_vars

(***************************************************************************)
(* Properties.                                                             *)
(***************************************************************************)
MinEntries(vs) == SelectSeq(vs, LAMBDA v : v.type = "min")
MaxEntries(vs) == SelectSeq(vs, LAMBDA v : v.type = "max")
NotMin(vs) == SelectSeq(vs, LAMBDA v : v.type # "min")
NotMax(vs) == SelectSeq(vs, LAMBDA v : v.type # "max")

\* the chain after a call of min / max that returned: one entry of the kind
\* with the bound passed, or none when the bound was falsy
ReflectsLast(entries, bound) ==
    IF Truthy(bound) THEN Len(entries) = 1 /\ entries[1].bound = bound
    ELSE Len(entries) = 0

\* C1: after a min (max) call that returned, the chain holds exactly one
\* entry of type min (max), with that call's bound, if the bound was truthy
\* and none if it was falsy; and no call other than min (max) changes the
\* entries of type min (max), so the chain reflects the last call of the kind.
C1_LastCallOfKindWins ==
    /\ [](/\ (last.op = "min" /\ last.out.st = "return")
                => ReflectsLast(MinEntries(validators), last.arg)
          /\ (last.op = "max" /\ last.out.st = "return")
                => ReflectsLast(MaxEntries(validators), last.arg)
          /\ Len(MinEntries(validators)) <= 1
          /\ Len(MaxEntries(validators)) <= 1)
    /\ [][/\ last'.op # "min" => MinEntries(validators') = MinEntries(validators)
          /\ last'.op # "max" => MaxEntries(validators') = MaxEntries(validators)]_vars

\* min(null) after min(x): the bound installed before is gone, the other
\* entries are still there
C1_Witness ==
    /\ last.op = "min" /\ ~Truthy(last.arg) /\ last.out.st = "return"
    /\ minValidator # 0
    /\ Len(MinEntries(validators)) = 0
    /\ Len(MaxEntries(validators)) = 1

\* the time value of a Date
Time(d) == d.n.n

ValidDate(v) == v.k = "Date" /\ ~IsNaN(v.n)

\* C2: called on a valid Date v, the validator of a literal bound b returns
\* true exactly when time(v) >= time(cast(b)) for min and exactly when
\* time(v) <= time(cast(b)) for max, and false otherwise: it does not throw.
C2_InclusiveBounds ==
    (last.op = "validator" /\ last.bound # DateNow /\ ValidDate(last.arg)) =>
        /\ last.out.st = "return"
        /\ last.type = "min" =>
             (last.out.val = Bool(TRUE)) = (Time(last.arg) >= Time(cast(last.bound).val))
        /\ last.type = "max" =>
             (last.out.val = Bool(TRUE)) = (Time(last.arg) <= Time(cast(last.bound).val))
        /\ last.out.val \in {Bool(TRUE), Bool(FALSE)}

\* min = the Date of time 1 and max = a date string of time 1000 are both
\* installed, and the min validator accepts the value equal to its bound
C2_Witness ==
    /\ last.op = "validator" /\ last.type = "min"
    /\ last.bound = DateObj(Num(1), 2) /\ last.arg = DateObj(Num(1), 4)
    /\ last.out = Return(Bool(TRUE))
    /\ \E i \in DOMAIN validators :
          validators[i].type = "max" /\ validators[i].bound = Str("1970-01-01T00:00:01Z")

\* C3: a min or max validator called on null returns true, whatever its
\* bound and whatever the time of the call.
C3_NullPasses ==
    (last.op = "validator" /\ last.arg = Null) => last.out = Return(Bool(TRUE))

\* the max validator of the bound Date.now called on null after time passed
C3_Witness ==
    /\ last.op = "validator" /\ last.arg = Null /\ last.type = "max"
    /\ last.bound = DateNow /\ last.at > 0
    /\ last.out = Return(Bool(TRUE))

\* C4: cast returns null, returns a valid Date or throws a CastError of kind
\* 'date' with the value and the path; a valid Date is returned as it is;
\* null is returned for null, undefined and '' only.
C4_CastTotal ==
    last.op = "cast" =>
        /\ \/ last.out = Return(Null)
           \/ last.out.st = "return" /\ ValidDate(last.out.val)
           \/ /\ last.out.st = "throw"
              /\ last.out.err.name = "CastError" /\ last.out.err.kind = "date"
              /\ last.out.err.value = last.arg /\ last.out.err.path = path
        /\ ValidDate(last.arg) => last.out = Return(last.arg)
        /\ last.out = Return(Null) => last.arg \in {Null, Undefined, Str("")}

\* the bound of a min / max call is truthy, literal and cannot be cast
Uncastable(value) == Truthy(value) /\ value # DateNow /\ cast(value).st = "throw"

DeferredMinCall ==
    /\ last.op = "validator" /\ last.type = "min" /\ last.bound = DateNow
    /\ ValidDate(last.arg)

\* C6 as stated: the min validator of the bound Date.now, called on a value
\* that lies in the past, returns true (at both of two calls).
C6_PastValuePasses ==
    (DeferredMinCall /\ Time(last.arg) < last.at) =>
        /\ last.out = Return(Bool(TRUE))
        /\ last.prev.some => last.prev.out = Return(Bool(TRUE))

\* C6 amended: the min validator of the bound Date.now resolves the bound at
\* each call: it returns true exactly when time(v) >= the time of that call.
\* So on a value in the past it returns false at both of two calls, and on a
\* value equal to the time of the first call it returns true, then false.
C6_ResolvedAtEachCall ==
    DeferredMinCall =>
        /\ last.out = Return(Bool(Time(last.arg) >= last.at))
        /\ last.prev.some => last.prev.out = Return(Bool(Time(last.arg) >= last.prev.at))

\* two calls on the value equal to the time of the first: true, then false
C6_Witness ==
    /\ DeferredMinCall /\ last.prev.some
    /\ Time(last.arg) = last.prev.at /\ last.prev.at < last.at
    /\ last.prev.out = Return(Bool(TRUE)) /\ last.out = Return(Bool(FALSE))

IndexProps(ix) == IF ix.type = "Object" THEN ix.props ELSE NoProps

\* C8: expires leaves a plain-object index specification whose expires entry
\* is the duration of this call, with the other entries of the specification
\* it found and no more, returns the object, and changes neither the path
\* nor the validator chain nor the min / max markers.
C8_ExpiresFrame ==
    [][last'.op = "expires" =>
          /\ _index'.type = "Object"
          /\ DOMAIN _index'.props = DOMAIN IndexProps(_index) \cup {"expires"}
          /\ _index'.props["expires"] = ParseDuration(last'.arg)
          /\ \A k \in DOMAIN IndexProps(_index) \ {"expires"} :
                _index'.props[k] = _index.props[k]
          /\ last'.out = Return(This)
          /\ UNCHANGED <<path, validators, minValidator, maxValidator>>]_vars

\* expires('24h') on an index specification holding unique, with validators
C8_Witness ==
    /\ last.op = "expires" /\ last.arg = Str("24h")
    /\ _index.type = "Object"
    /\ DOMAIN _index.props = {"unique", "expires"}
    /\ _index.props["expires"] = Number(Num(86400))
    /\ Len(validators) = 2

\* C9: a min or max call that throws leaves the chain and the markers as
\* they were.
C9_ThrowLeavesState ==
    [][(last'.op \in {"min", "max"} /\ last'.out.st = "throw") =>
          /\ last'.out.err.name = "CastError"
          /\ UNCHANGED <<validators, minValidator, maxValidator>>]_vars

====
